---- MODULE Spec2Model ----
(***************************************************************************)
(* A model of clang's early statement parser (clang/Parse/ParseStmt.cpp).  *)
(*                                                                         *)
(* The parser is a set of mutually recursive routines over a token stream  *)
(* with one token of lookahead.  The model keeps the token stream, the     *)
(* cursor, the diagnostics emitted so far and an explicit call stack; one  *)
(* action models one straight-line segment of a routine, from its entry    *)
(* (or from the return of a callee) up to the next call of                 *)
(* ParseStatementOrDeclaration or to the routine's return.                 *)
(*                                                                         *)
(* The collaborators that ParseStmt.cpp only calls (the token stream, the  *)
(* expression parser, the declaration parser, SkipUntil, Diag) are         *)
(* modelled from the specification's description of them.                  *)
(***************************************************************************)
EXTENDS Integers, Sequences, FiniteSets, TLC

VARIABLES
    toks,          \* the token stream: a sequence of token kinds ending in "eof"
    pos,           \* the cursor: index in toks of the lookahead token Tok
    diags,         \* the diagnostics emitted so far, in order
    stack,         \* the call stack, innermost activation last
    log,           \* history of calls, returns and steps (for stating properties)
    C99,           \* getLang().C99
    NoExtensions,  \* getLang().NoExtensions
    first          \* result of a finished first parse, kept when the consumed range is re-parsed

vars == <<toks, pos, diags, stack, log, C99, NoExtensions, first>>

(***************************************************************************)
(* Token kinds.                                                            *)
(***************************************************************************)
StmtKeywords ==
    {"kw_if", "kw_switch", "kw_while", "kw_do", "kw_for",
     "kw_goto", "kw_continue", "kw_break", "kw_return"}

\* Every token kind the parser, the expression parser or the declaration
\* parser tells apart; "colon" stands for every other token.
TokenKinds ==
    StmtKeywords \cup
    {"l_brace", "r_brace", "semi", "l_paren", "r_paren", "kw_else",
     "identifier", "star", "kw_int", "colon"}

(***************************************************************************)
(* Inputs.  A token stream is a seed statement in which, at one place, a   *)
(* run of at most MaxIns arbitrary tokens is inserted, or replaces one     *)
(* token, or replaces the rest of the seed; "eof" ends every stream.       *)
(***************************************************************************)
MaxIns == 1

Seeds ==
    { <<"kw_if", "l_paren", "identifier", "r_paren",
          "kw_if", "l_paren", "identifier", "r_paren", "semi",
          "kw_else", "semi">>,
      <<"kw_if", "l_paren", "identifier", "r_paren", "kw_break", "semi",
          "kw_else", "l_brace", "r_brace">>,
      <<"kw_do", "semi", "kw_while", "l_paren", "identifier", "r_paren", "semi",
          "kw_break", "semi">>,
      <<"kw_do", "l_brace", "kw_continue", "semi", "r_brace",
          "kw_while", "l_paren", "identifier", "r_paren", "semi">>,
      <<"kw_for", "l_paren", "semi", "semi", "r_paren", "semi">>,
      <<"kw_for", "l_paren", "kw_int", "identifier", "semi", "identifier", "semi",
          "identifier", "r_paren", "semi">>,
      <<"kw_for", "l_paren", "identifier", "semi", "identifier", "semi",
          "star", "identifier", "r_paren", "l_brace", "r_brace">>,
      <<"kw_goto", "star", "identifier", "semi", "semi">>,
      <<"kw_goto", "identifier", "semi">>,
      <<"kw_while", "l_paren", "identifier", "r_paren", "kw_continue", "semi">>,
      <<"kw_switch", "l_paren", "identifier", "r_paren",
          "l_brace", "kw_break", "semi", "r_brace">>,
      <<"kw_return", "semi">>,
      <<"kw_return", "star", "l_paren", "identifier", "r_paren", "semi">>,
      <<"l_brace", "l_brace", "semi", "r_brace", "kw_break", "semi", "r_brace",
          "semi">>,
      <<"l_brace", "kw_if", "l_paren", "identifier", "r_paren",
          "l_brace", "kw_return", "identifier", "semi", "r_brace", "r_brace">>,
      <<"kw_do", "identifier", "semi", "kw_while", "l_paren", "identifier", "r_paren",
          "semi">>,
      <<"identifier", "semi", "semi">>,
      <<"identifier", "colon", "semi">>,
      <<"kw_int", "identifier", "semi", "semi">> }

RECURSIVE SeqsUpTo(_, _)
\* All sequences over S of length at most n.
SeqsUpTo(S, n) ==
    IF n = 0 THEN {<<>>}
    ELSE LET shorter == SeqsUpTo(S, n - 1)
         IN  shorter \cup {Append(s, x) : s \in shorter, x \in S}

\* s[lo..], empty when lo is past the end.
Rest(s, lo) == IF lo > Len(s) THEN <<>> ELSE SubSeq(s, lo, Len(s))

\* The seed s with the run t put after its first i tokens, the seed
\* resuming at its token j.
Splice(s, i, t, j) == SubSeq(s, 1, i) \o t \o Rest(s, j) \o <<"eof">>

\* The places <<i, j>> of the seed s where a run can go.
Places(s) ==
    {p \in (0..Len(s)) \X (1..(Len(s) + 1)) :
        p[2] \in {p[1] + 1, p[1] + 2, Len(s) + 1}}

\* The runs of at most n tokens.
Runs(n) == SeqsUpTo(TokenKinds, n)

\* The most tokens spliced into the streams that termination is checked on.
MaxLiveIns == 0

\* The streams that termination is checked on.
LiveInputs ==
    UNION { { Splice(s, p[1], t, p[2]) : t \in Runs(MaxLiveIns), p \in Places(s) } :
            s \in Seeds }

(***************************************************************************)
(* The token stream.                                                       *)
(***************************************************************************)
\* Tok.getKind() with the cursor at p.
Kind(p) == toks[p]

\* ConsumeToken / ConsumeBrace / ConsumeParen: the cursor after consuming
\* the token at p.  The lexer keeps returning eof at the end of the input.
Advance(p) == IF Kind(p) = "eof" THEN p ELSE p + 1

RECURSIVE SkipUntil(_, _)
\* SkipUntil(T) from p: skip forward to the next token of kind T and
\* consume it; stop at eof.
SkipUntil(p, T) ==
    IF Kind(p) = T THEN p + 1
    ELSE IF Kind(p) = "eof" THEN p
    ELSE SkipUntil(p + 1, T)

\* A diagnostic: its kind, the index of the token it is reported at, and
\* its string argument ("" when it has none).
Diagnostic(kind, loc, arg) == [kind |-> kind, loc |-> loc, arg |-> arg]

(***************************************************************************)
(* The expression parser and the declaration parser.                       *)
(*   expression:  identifier | '*' expression | '(' expression ')'         *)
(*   declaration: 'int'+ '*'* identifier[opt] ';'                          *)
(* Each returns the cursor after the construct and the diagnostics it      *)
(* emitted.                                                                *)
(***************************************************************************)
\* After the expression inside parentheses (in): the ')'.
CloseParen(in) ==
    CHOOSE r \in
        { IF Kind(e.pos) = "r_paren"
          THEN [pos |-> e.pos + 1, errs |-> e.errs]
          ELSE [pos |-> SkipUntil(e.pos, "r_paren"),
                errs |-> Append(e.errs,
                                Diagnostic("err_expected_rparen_expr", e.pos, ""))] :
          e \in {in} } : TRUE

RECURSIVE ParseExpressionAt(_)
ParseExpressionAt(p) ==
    CASE Kind(p) = "identifier" -> [pos |-> p + 1, errs |-> <<>>]
      [] Kind(p) = "star" -> ParseExpressionAt(p + 1)
      [] Kind(p) = "l_paren" -> CloseParen(ParseExpressionAt(p + 1))
      [] OTHER -> [pos |-> p,
                   errs |-> <<Diagnostic("err_expected_expression", p, "")>>]

\* isDeclarationSpecifier() with the cursor at p.
isDeclarationSpecifier(p) == Kind(p) = "kw_int"

RECURSIVE SkipKind(_, _)
\* The cursor after the run of tokens of kind K that starts at p.
SkipKind(p, K) == IF Kind(p) = K THEN SkipKind(p + 1, K) ELSE p

ParseDeclarationAt(p) ==
    LET q == SkipKind(SkipKind(p, "kw_int"), "star")
        r == IF Kind(q) = "identifier" THEN q + 1 ELSE q
    IN  IF Kind(r) = "semi"
        THEN [pos |-> r + 1, errs |-> <<>>]
        ELSE [pos |-> SkipUntil(r, "semi"),
              errs |-> <<Diagnostic("err_expected_semi_decl", r, "")>>]

(***************************************************************************)
(* The parser's working state inside one action: a record of the cursor,   *)
(* the diagnostics and the history, threaded through the steps of a        *)
(* straight-line segment of code.                                          *)
(***************************************************************************)
Here == [pos |-> pos, diags |-> diags, log |-> log]

Depth == Len(stack)
Top == stack[Depth]

\* Step applied to the value of x, which is evaluated once.
With(x, Step(_)) == CHOOSE r \in {Step(v) : v \in {x}} : TRUE

\* A history entry: what happened (ev), in or to which routine (fn), with
\* the cursor where (at), after how many diagnostics (nd), in the
\* activation at which stack depth (d).
Event(ev, fn, ps, d) ==
    [ev |-> ev, fn |-> fn, at |-> ps.pos, nd |-> Len(ps.diags), d |-> d]

Note(ps, ev, fn, d) ==
    With(ps, LAMBDA v : [v EXCEPT !.log = Append(@, Event(ev, fn, v, d))])

\* ConsumeToken() (also ConsumeBrace, ConsumeParen).
Consume(ps) == [ps EXCEPT !.pos = Advance(@)]

\* Diag(Tok, kind, arg): a diagnostic at the current token.
Diag(ps, kind, arg) ==
    With(ps, LAMBDA v :
        [v EXCEPT !.diags = Append(@, Diagnostic(kind, v.pos, arg))])

\* Diag(Loc, kind): a diagnostic at a remembered location.
DiagAt(ps, loc, kind) ==
    [ps EXCEPT !.diags = Append(@, Diagnostic(kind, loc, ""))]

\* SkipUntil(T).
Skip(ps, T) ==
    [Note(ps, "skip", T, Depth) EXCEPT !.pos = SkipUntil(@, T)]

\* The parser state after a collaborator fn, called with the state ps, has
\* moved the cursor and emitted diagnostics as in r.
External(ps, fn, Result(_)) ==
    With(ps, LAMBDA v :
        With(Result(v.pos), LAMBDA r :
            [Note(v, "ext", fn, Depth)
               EXCEPT !.pos = r.pos, !.diags = @ \o r.errs]))

\* ParseExpression().
ParseExpression(ps) == External(ps, "ParseExpression", ParseExpressionAt)

\* ParseParenExpression(): called with the cursor at '('.
ParseParenExpression(ps) ==
    External(ps, "ParseParenExpression", ParseExpressionAt)

\* ParseDeclaration(Declarator::ForContext).
ParseDeclaration(ps) == External(ps, "ParseDeclaration", ParseDeclarationAt)

(***************************************************************************)
(* Calls and returns.                                                      *)
(***************************************************************************)
Frame(fn) == [fn |-> fn, pc |-> "entry", loc |-> 0]

\* The history kept is bounded; no parse of an input comes near the bound.
MaxEvents == 64

\* The state after an action: cursor, diagnostics and history from ps, the
\* call stack stk.
Commit(ps, stk) ==
    \E v \in {ps} :
       /\ Len(v.log) <= MaxEvents
       /\ pos' = v.pos
       /\ diags' = v.diags
       /\ log' = v.log
       /\ stack' = stk
       /\ UNCHANGED <<toks, C99, NoExtensions, first>>

\* The running routine, continuing at pc after the callee returns, calls fn.
Call(ps, pc, fn) ==
    Commit(Note(ps, "call", fn, Depth + 1),
           Append([stack EXCEPT ![Depth].pc = pc], Frame(fn)))

\* ParseStatement(): parse one statement through the dispatcher.
ParseStatement(ps, pc) == Call(ps, pc, "ParseStatementOrDeclaration")

\* The running routine returns to its caller.
Return(ps) ==
    Commit(Note(ps, "ret", Top.fn, Depth), SubSeq(stack, 1, Depth - 1))

\* The running routine is fn, at pc.
Running(fn, pc) == Depth > 0 /\ Top.fn = fn /\ Top.pc = pc

(***************************************************************************)
(* Parser::ParseStatementOrDeclaration                                     *)
(***************************************************************************)
PSOD == "ParseStatementOrDeclaration"

\* The cases of the switch that 'return' right after the routine they call.
ReturningCases == {"kw_if", "kw_switch", "kw_while", "kw_for"}

\* The cases that call a routine and 'break' to the semicolon check.
BreakingCases == {"kw_do", "kw_goto", "kw_return"}

\* The cases that eat their keyword and 'break' to the semicolon check.
KeywordCases == {"kw_continue", "kw_break"}

\* The routine a case of the switch calls.
RoutineOf(kind) ==
    CASE kind = "kw_if" -> "ParseIfStatement"
      [] kind = "kw_switch" -> "ParseSwitchStatement"
      [] kind = "kw_while" -> "ParseWhileStatement"
      [] kind = "kw_for" -> "ParseForStatement"
      [] kind = "kw_do" -> "ParseDoStatement"
      [] kind = "kw_goto" -> "ParseGotoStatement"
      [] kind = "kw_return" -> "ParseReturnStatement"

SemiErrorOf_BreakAsContinue(kind) ==
    CASE kind = "kw_do" -> "do/while loop"
      [] kind = "kw_goto" -> "goto statement"
      [] kind = "kw_continue" -> "continue statement"
      [] kind = "kw_break" -> "continue statement"
      [] kind = "kw_return" -> "return statement"

\* The value a case of the switch gives SemiError.
SemiErrorOf(kind) ==
    CASE kind = "kw_do" -> "do/while loop"
      [] kind = "kw_goto" -> "goto statement"
      [] kind = "kw_continue" -> "continue statement"
      [] kind = "kw_break" -> "break statement"
      [] kind = "kw_return" -> "return statement"

SemiCheck_LeavesSemi(ps, SemiError) ==
    With(Note(ps, "semi", SemiError, Depth), LAMBDA v :
        IF Kind(v.pos) = "semi"
        THEN v
        ELSE Skip(Diag(v, "err_expected_semi_after", SemiError), "semi"))

\* The code after the switch: the statement must end in a semicolon.
SemiCheck(ps, SemiError) ==
    With(Note(ps, "semi", SemiError, Depth), LAMBDA v :
        IF Kind(v.pos) = "semi"
        THEN Consume(v)
        ELSE Skip(Diag(v, "err_expected_semi_after", SemiError), "semi"))

CaseDefault_FallsThrough ==
    /\ Running(PSOD, "entry")
    /\ Kind(pos) \notin
         {"l_brace", "semi"} \cup ReturningCases \cup BreakingCases \cup KeywordCases
    /\ Return(SemiCheck(Skip(Diag(Here, "err_expected_statement_declaration", ""),
                             "semi"),
                        ""))

CaseDefault_NoSkip ==
    /\ Running(PSOD, "entry")
    /\ Kind(pos) \notin
         {"l_brace", "semi"} \cup ReturningCases \cup BreakingCases \cup KeywordCases
    /\ Return(Diag(Here, "err_expected_statement_declaration", ""))

\* default: not the start of a statement.
CaseDefault ==
    /\ Running(PSOD, "entry")
    /\ Kind(pos) \notin
         {"l_brace", "semi"} \cup ReturningCases \cup BreakingCases \cup KeywordCases
    /\ Return(Skip(Diag(Here, "err_expected_statement_declaration", ""), "semi"))

\* case tok::l_brace
CaseLBrace ==
    /\ Running(PSOD, "entry")
    /\ Kind(pos) = "l_brace"
    /\ Call(Here, "return", "ParseCompoundStatement")

CaseSemi_ParsesNext ==
    /\ Running(PSOD, "entry")
    /\ Kind(pos) = "semi"
    /\ Call(Consume(Here), "return", PSOD)

\* case tok::semi
CaseSemi ==
    /\ Running(PSOD, "entry")
    /\ Kind(pos) = "semi"
    /\ Return(Consume(Here))

\* case tok::kw_if, kw_switch, kw_while, kw_for: call the routine, then return.
CaseReturning ==
    /\ Running(PSOD, "entry")
    /\ Kind(pos) \in ReturningCases
    /\ Call(Here, "return", RoutineOf(Kind(pos)))

\* case tok::kw_do, kw_goto, kw_return: call the routine, then break.
CaseBreaking ==
    /\ Running(PSOD, "entry")
    /\ Kind(pos) \in BreakingCases
    /\ Call(Here, Kind(pos), RoutineOf(Kind(pos)))

\* case tok::kw_continue, kw_break: eat the keyword, break, check the semicolon.
CaseKeyword ==
    /\ Running(PSOD, "entry")
    /\ Kind(pos) \in KeywordCases
    /\ Return(SemiCheck(Consume(Here), SemiErrorOf(Kind(pos))))

\* The routine of a breaking case has returned: set SemiError, break, check
\* the semicolon.
AfterBreaking ==
    /\ Depth > 0 /\ Top.fn = PSOD /\ Top.pc \in BreakingCases
    /\ Return(SemiCheck(Here, SemiErrorOf(Top.pc)))

\* The routine of a returning case, or ParseCompoundStatement, has returned.
AfterReturning ==
    /\ Running(PSOD, "return")
    /\ Return(Here)

(***************************************************************************)
(* Parser::ParseCompoundStatement                                          *)
(***************************************************************************)
\* The condition of the while loop, on the kind of the current token.
MoreBlockItems_NoEofTest(kind) == kind # "r_brace"

MoreBlockItems(kind) == kind # "r_brace" /\ kind # "eof"

\* The loop and the code after it, with the cursor and diagnostics of ps.
CompoundLoop(ps) ==
    \E v \in {ps} :
       IF MoreBlockItems(Kind(v.pos))
       THEN Call(v, "loop", PSOD)
       ELSE IF Kind(v.pos) = "r_brace"
            THEN Return(Consume(v))
            ELSE Return(Diag(v, "err_expected_rbrace", ""))

\* Eat the '{' and enter the loop.
CompoundEntry ==
    /\ Running("ParseCompoundStatement", "entry")
    /\ CompoundLoop(Consume(Here))

\* A block item has been parsed: test the loop condition again.
CompoundNext ==
    /\ Running("ParseCompoundStatement", "loop")
    /\ CompoundLoop(Here)

(***************************************************************************)
(* Parser::ParseIfStatement                                                *)
(***************************************************************************)
MissingLParen_NoRecovery(ps, after) ==
    Return(Diag(ps, "err_expected_lparen_after", after))

\* After the keyword: the '(' is missing.
MissingLParen(ps, after) ==
    Return(Skip(Diag(ps, "err_expected_lparen_after", after), "semi"))

\* Eat the 'if', parse the condition, read the then statement.
IfEntry ==
    /\ Running("ParseIfStatement", "entry")
    /\ \E ps \in {Consume(Here)} :
          IF Kind(ps.pos) # "l_paren"
          THEN MissingLParen(ps, "if")
          ELSE ParseStatement(ParseParenExpression(ps), "then")

HasElse_Never(kind) == FALSE

\* Whether the if statement has an else, on the kind of the current token.
HasElse(kind) == kind = "kw_else"

\* The then statement has been read: if it has an else, parse it.
IfAfterThen ==
    /\ Running("ParseIfStatement", "then")
    /\ IF HasElse(Kind(pos))
       THEN ParseStatement(Consume(Note(Here, "else", "ParseIfStatement", Depth)),
                           "else")
       ELSE Return(Here)

\* The else statement has been read.
IfAfterElse ==
    /\ Running("ParseIfStatement", "else")
    /\ Return(Here)

(***************************************************************************)
(* Parser::ParseSwitchStatement                                            *)
(***************************************************************************)
SwitchEntry ==
    /\ Running("ParseSwitchStatement", "entry")
    /\ \E ps \in {Consume(Here)} :
          IF Kind(ps.pos) # "l_paren"
          THEN MissingLParen(ps, "switch")
          ELSE ParseStatement(ParseParenExpression(ps), "body")

SwitchAfterBody ==
    /\ Running("ParseSwitchStatement", "body")
    /\ Return(Here)

(***************************************************************************)
(* Parser::ParseWhileStatement                                             *)
(***************************************************************************)
WhileEntry ==
    /\ Running("ParseWhileStatement", "entry")
    /\ \E ps \in {Consume(Here)} :
          IF Kind(ps.pos) # "l_paren"
          THEN MissingLParen(ps, "while")
          ELSE ParseStatement(ParseParenExpression(ps), "body")

WhileAfterBody ==
    /\ Running("ParseWhileStatement", "body")
    /\ Return(Here)

(***************************************************************************)
(* Parser::ParseDoStatement                                                *)
(***************************************************************************)
\* Remember DoLoc, eat the 'do', read the body statement.
DoEntry ==
    /\ Running("ParseDoStatement", "entry")
    /\ Commit(Note(Consume(Here), "call", PSOD, Depth + 1),
              Append([stack EXCEPT ![Depth].pc = "body", ![Depth].loc = pos],
                     Frame(PSOD)))

\* The body has been read: 'while' '(' expression ')'.
DoAfterBody ==
    /\ Running("ParseDoStatement", "body")
    /\ IF Kind(pos) # "kw_while"
       THEN Return(Skip(DiagAt(Diag(Here, "err_expected_while", ""),
                               Top.loc, "err_matching"),
                        "semi"))
       ELSE \E ps \in {Consume(Here)} :
               IF Kind(ps.pos) # "l_paren"
               THEN MissingLParen(ps, "do/while")
               ELSE Return(ParseParenExpression(ps))

(***************************************************************************)
(* Parser::ParseForStatement                                               *)
(***************************************************************************)
\* "expected ';' in for", with the matching 'for', then skip to a ';'.
MissingSemiInFor(ps, ForLoc) ==
    Skip(DiagAt(Diag(ps, "err_expected_semi_for", ""), ForLoc, "err_matching"),
         "semi")

ForFirstPart_SemiAfterDeclaration(ps, ForLoc) ==
    With(ps, LAMBDA v :
        IF Kind(v.pos) = "semi"
        THEN Consume(v)
        ELSE With(IF isDeclarationSpecifier(v.pos)
                  THEN ParseDeclaration(
                           IF ~C99
                           THEN Diag(v, "ext_c99_variable_decl_in_for_loop", "")
                           ELSE v)
                  ELSE ParseExpression(v), LAMBDA e :
                 IF Kind(e.pos) = "semi"
                 THEN Consume(e)
                 ELSE MissingSemiInFor(e, ForLoc)))

\* The first part of the for specifier.
ForFirstPart(ps, ForLoc) ==
    With(ps, LAMBDA v :
        IF Kind(v.pos) = "semi"
        THEN Consume(v)
        ELSE IF isDeclarationSpecifier(v.pos)
             THEN ParseDeclaration(
                      IF ~C99
                      THEN Diag(v, "ext_c99_variable_decl_in_for_loop", "")
                      ELSE v)
             ELSE With(ParseExpression(v), LAMBDA e :
                      IF Kind(e.pos) = "semi"
                      THEN Consume(e)
                      ELSE MissingSemiInFor(e, ForLoc)))

ForSecondPart_AlwaysExpression(ps, ForLoc) ==
    With(ParseExpression(ps), LAMBDA e :
        IF Kind(e.pos) = "semi"
        THEN Consume(e)
        ELSE MissingSemiInFor(e, ForLoc))

\* The second part of the for specifier and its ';'.
ForSecondPart(ps, ForLoc) ==
    With(ps, LAMBDA v :
        With(IF Kind(v.pos) = "semi" THEN v ELSE ParseExpression(v), LAMBDA e :
            IF Kind(e.pos) = "semi"
            THEN Consume(e)
            ELSE MissingSemiInFor(e, ForLoc)))

\* The third part of the for specifier, up to the ')'.
ForThirdPart(ps) ==
    With(ps, LAMBDA v :
        IF Kind(v.pos) = "r_paren" THEN v ELSE ParseExpression(v))

\* The three parts of the for specifier, from after the '(' up to the ')'.
ForSpecifier(ps, ForLoc) ==
    ForThirdPart(ForSecondPart(ForFirstPart(ps, ForLoc), ForLoc))

ForBody_SkipsToSemi(e, LParenLoc) ==
    IF Kind(e.pos) = "r_paren"
    THEN ParseStatement(Consume(e), "body")
    ELSE Return(Skip(DiagAt(Diag(e, "err_expected_rparen", ""),
                            LParenLoc, "err_matching"),
                     "semi"))

\* After the specifier: eat the ')' and read the body statement.
ForBody(e, LParenLoc) ==
    IF Kind(e.pos) = "r_paren"
    THEN ParseStatement(Consume(e), "body")
    ELSE Return(Skip(DiagAt(Diag(e, "err_expected_rparen", ""),
                            LParenLoc, "err_matching"),
                     "r_paren"))

\* Eat the 'for' and the '(', parse the three parts, read the body statement.
ForEntry ==
    /\ Running("ParseForStatement", "entry")
    /\ IF Kind(pos + 1) # "l_paren"
       THEN MissingLParen(Consume(Here), "for")
       ELSE \E e \in {ForSpecifier(Consume(Consume(Here)), pos)} :
               ForBody(e, pos + 1)

ForAfterBody ==
    /\ Running("ParseForStatement", "body")
    /\ Return(Here)

(***************************************************************************)
(* Parser::ParseGotoStatement                                              *)
(***************************************************************************)
GotoTarget_AlwaysIndirect(ps) ==
    With(ps, LAMBDA v :
        IF Kind(v.pos) = "identifier"
        THEN Consume(v)
        ELSE IF Kind(v.pos) = "star"
             THEN ParseExpression(Consume(Diag(v, "ext_gnu_indirect_goto", "")))
             ELSE v)

\* What follows the 'goto'.
GotoTarget(ps) ==
    With(ps, LAMBDA v :
        IF Kind(v.pos) = "identifier"
        THEN Consume(v)
        ELSE IF Kind(v.pos) = "star" /\ ~NoExtensions
             THEN ParseExpression(Consume(Diag(v, "ext_gnu_indirect_goto", "")))
             ELSE v)

GotoEntry ==
    /\ Running("ParseGotoStatement", "entry")
    /\ Return(GotoTarget(Consume(Here)))

(***************************************************************************)
(* Parser::ParseReturnStatement                                            *)
(***************************************************************************)
ReturnEntry ==
    /\ Running("ParseReturnStatement", "entry")
    /\ \E ps \in {Consume(Here)} :
          Return(IF Kind(ps.pos) # "semi" THEN ParseExpression(ps) ELSE ps)

(***************************************************************************)
(* The parse of one token stream.                                          *)
(***************************************************************************)
\* The language options matter only where the code reads them: C99 for a
\* declaration in a for specifier, NoExtensions for 'goto' '*'.
Mentions(s, kind) == \E i \in DOMAIN s : s[i] = kind

\* The top-level parser calls ParseStatementOrDeclaration at the first token.
Start(s) ==
    /\ toks = s
    /\ pos = 1
    /\ diags = <<>>
    /\ stack = <<Frame(PSOD)>>
    /\ log = <<[ev |-> "call", fn |-> PSOD, at |-> 1, nd |-> 0, d |-> 1]>>

Init ==
    /\ \E s \in Seeds, t \in Runs(MaxIns) :
          \E p \in Places(s) : Start(Splice(s, p[1], t, p[2]))
    /\ C99 \in IF Mentions(toks, "kw_int") THEN BOOLEAN ELSE {TRUE}
    /\ NoExtensions \in IF Mentions(toks, "star") THEN BOOLEAN ELSE {FALSE}
    /\ first = <<>>

\* ParseStatementOrDeclaration has returned to the top-level parser.
Done == stack = <<>>

Next ==
    \/ CaseDefault
    \/ CaseLBrace
    \/ CaseSemi
    \/ CaseReturning
    \/ CaseBreaking
    \/ CaseKeyword
    \/ AfterBreaking
    \/ AfterReturning
    \/ CompoundEntry
    \/ CompoundNext
    \/ IfEntry
    \/ IfAfterThen
    \/ IfAfterElse
    \/ SwitchEntry
    \/ SwitchAfterBody
    \/ WhileEntry
    \/ WhileAfterBody
    \/ DoEntry
    \/ DoAfterBody
    \/ ForEntry
    \/ ForAfterBody
    \/ GotoEntry
    \/ ReturnEntry

Spec == Init /\ [][Next]_vars

(***************************************************************************)
(* The statement grammar of the comment above ParseStatementOrDeclaration  *)
(* and of the comments above the routines, as a recogniser: StmtEnds(p) is *)
(* the set of cursors q such that the tokens from p up to q (exclusive)    *)
(* are a statement.  Expressions are those of the expression parser.  The  *)
(* forms that are diagnosed by design ([GNU] 'goto' '*', a declaration in  *)
(* a for specifier) are left out.                                          *)
(***************************************************************************)
\* The cursor after a well-formed expression at p, if there is one.
ExprEnds(p) ==
    LET r == ParseExpressionAt(p) IN IF r.errs = <<>> THEN {r.pos} ELSE {}

\* expression[opt]
OptExprEnds(p) == {p} \cup ExprEnds(p)

\* The cursors after a token of kind K at one of the cursors in P.
After(P, K) == {q + 1 : q \in {x \in P : Kind(x) = K}}

\* '(' expression ')'
ParenExprEnds(P) ==
    After(UNION {ExprEnds(q) : q \in After(P, "l_paren")}, "r_paren")

RECURSIVE StmtEnds(_)
RECURSIVE BlockItemsEnds(_)

\* Statements, one after the other, from each of the cursors in P.
StmtEndsFrom(P) == UNION {StmtEnds(q) : q \in P}

\* block-item-list[opt], block items being statements
BlockItemsEnds(p) ==
    {p} \cup UNION {BlockItemsEnds(q) : q \in StmtEnds(p)}

StmtEnds(p) ==
    CASE Kind(p) = "l_brace" ->           \* compound-statement
            After(BlockItemsEnds(p + 1), "r_brace")
      [] Kind(p) = "kw_if" ->             \* with and without else
            LET then == StmtEndsFrom(ParenExprEnds({p + 1}))
            IN  then \cup StmtEndsFrom(After(then, "kw_else"))
      [] Kind(p) \in {"kw_switch", "kw_while"} ->
            StmtEndsFrom(ParenExprEnds({p + 1}))
      [] Kind(p) = "kw_do" ->
            After(ParenExprEnds(After(StmtEnds(p + 1), "kw_while")), "semi")
      [] Kind(p) = "kw_for" ->
            LET part1 == After(OptExprEnds(p + 2), "semi")
                part2 == After(UNION {OptExprEnds(q) : q \in part1}, "semi")
                part3 == After(UNION {OptExprEnds(q) : q \in part2}, "r_paren")
            IN  IF Kind(p + 1) = "l_paren" THEN StmtEndsFrom(part3) ELSE {}
      [] Kind(p) = "kw_goto" ->
            After(After({p + 1}, "identifier"), "semi")
      [] Kind(p) \in {"kw_continue", "kw_break"} ->
            After({p + 1}, "semi")
      [] Kind(p) = "kw_return" ->
            After(OptExprEnds(p + 1), "semi")
      [] Kind(p) = "eof" -> {}
      [] OTHER ->
            \* labeled-statement: identifier ':' statement
            \* expression-statement: expression[opt] ';'
            StmtEndsFrom(After(After({p}, "identifier"), "colon"))
              \cup After(OptExprEnds(p), "semi")

\* The first parse of the stream has returned (and it is not a re-parse).
Parsed == Done /\ first = <<>>

\* C1: for every token sequence that is a well-formed statement of the
\* statement grammar, one call of ParseStatementOrDeclaration at its first
\* token returns with the cursor exactly at the first token after the
\* statement and with zero diagnostics emitted.  (A statement followed by
\* 'else' is left aside: there the longer statement is the one parsed.)
C1_WellFormedParsedClean ==
    Parsed =>
      \A q \in StmtEnds(1) :
         Kind(q) # "kw_else" => pos = q /\ diags = <<>>

\* For termination the parser starts idle, before the top-level parser has
\* handed it a token stream.
Idle ==
    /\ toks = <<"eof">>
    /\ pos = 1
    /\ diags = <<>>
    /\ stack = <<>>
    /\ log = <<>>
    /\ C99 = TRUE
    /\ NoExtensions = FALSE
    /\ first = <<>>

\* The top-level parser calls ParseStatementOrDeclaration on a token stream.
Begin ==
    /\ stack = <<>> /\ log = <<>>
    /\ \E s \in LiveInputs :
         /\ toks' = s
         /\ C99' \in IF Mentions(s, "kw_int") THEN BOOLEAN ELSE {TRUE}
         /\ NoExtensions' \in IF Mentions(s, "star") THEN BOOLEAN ELSE {FALSE}
    /\ pos' = 1
    /\ diags' = <<>>
    /\ stack' = <<Frame(PSOD)>>
    /\ log' = <<[ev |-> "call", fn |-> PSOD, at |-> 1, nd |-> 0, d |-> 1]>>
    /\ first' = first

LiveNext == Begin \/ Next

\* The parser runs to completion on its thread: a routine that can take a
\* step takes it.
LiveSpec == Idle /\ [][LiveNext]_vars /\ WF_vars(LiveNext)

\* The call of ParseStatementOrDeclaration has been made and has returned.
Returned == Done /\ log # <<>>

\* C2: for every finite token stream terminated by end-of-input, a call of
\* ParseStatementOrDeclaration eventually returns: every nested statement
\* parse, every iteration of the compound-statement loop and every recovery
\* skip terminates, whatever the input.
C2_Terminates == <>Returned

\* A parse of a malformed stream that went through a block, an if with an
\* else and error recovery has returned.
C2_Witness ==
    /\ Done
    /\ diags # <<>>
    /\ \E i \in DOMAIN log : log[i].ev = "skip"
    /\ \E i \in DOMAIN log : log[i].ev = "ret" /\ log[i].fn = "ParseCompoundStatement"

(***************************************************************************)
(* Reading the history.                                                    *)
(***************************************************************************)
\* The calls in the history of routine fn.
CallsOf(fn) == {i \in DOMAIN log : log[i].ev = "call" /\ log[i].fn = fn}

\* The activation called at history entry i has returned.
HasReturned(i) ==
    \E j \in DOMAIN log : j > i /\ log[j].ev = "ret" /\ log[j].d = log[i].d

\* The history entry at which the activation called at entry i returned.
RetOf(i) ==
    CHOOSE j \in DOMAIN log :
       /\ j > i /\ log[j].ev = "ret" /\ log[j].d = log[i].d
       /\ \A k \in (i + 1)..(j - 1) : ~(log[k].ev = "ret" /\ log[k].d = log[i].d)

\* The diagnostics emitted while the activation called at entry i ran (the
\* indices in diags), once it has returned.
DiagsOf(i) == (log[i].nd + 1)..log[RetOf(i)].nd

\* The errors of the statement parser, and the advisory diagnostics.
StmtErrors ==
    {"err_expected_statement_declaration", "err_expected_semi_after",
     "err_expected_lparen_after", "err_expected_while",
     "err_expected_semi_for", "err_expected_rparen", "err_expected_rbrace"}

Advisories == {"ext_gnu_indirect_goto", "ext_c99_variable_decl_in_for_loop"}

\* Notes that point back at an earlier token.
BackReferences == {"err_matching"}

\* The stack depth of the routine that emitted diagnostic k.
EmitterDepth(k) ==
    log[CHOOSE m \in DOMAIN log :
           log[m].nd >= k /\ \A n \in 1..(m - 1) : log[n].nd < k].d

\* The resynchronisation point of the error e: just past the first ')' at
\* or after its token for a missing ')', else just past the first ';'.
ResyncPoint(e) ==
    SkipUntil(e.loc, IF e.kind = "err_expected_rparen" THEN "r_paren" ELSE "semi")

\* C3: when ParseStatementOrDeclaration returns after parsing a malformed
\* statement, the cursor is immediately after the nearest resynchronisation
\* point: just past the first ';' (for a missing ')' in a for header, the
\* first ')') that follows the token at which the error was detected, and
\* nothing beyond it is consumed.  Stated of every activation whose first
\* diagnosed error is one of its own statement (not of a nested statement,
\* nor of the expression or declaration parser).
C3_ReturnsAtResyncPoint ==
    \A i \in CallsOf(PSOD) :
       HasReturned(i) =>
         LET errors == {k \in DiagsOf(i) : diags[k].kind \notin Advisories}
             k1 == CHOOSE k \in errors : \A m \in errors : k <= m
         IN  (/\ errors # {}
              /\ diags[k1].kind \in StmtErrors
              /\ EmitterDepth(k1) \in {log[i].d, log[i].d + 1})
             => log[RetOf(i)].at = ResyncPoint(diags[k1])

\* The diagnostics emitted while the activation called at entry i ran.
DiagSeqOf(i) == SubSeq(diags, log[i].nd + 1, log[RetOf(i)].nd)

\* C4: for an otherwise well-formed 'do S while (E)' that is not followed
\* by ';', parsing the statement emits exactly one diagnostic, the
\* missing-semicolon diagnostic with label "do/while loop", and recovery
\* leaves the cursor just past the next semicolon (or at end-of-input if
\* there is none).
C4_DoWithoutSemi ==
    \A i \in CallsOf(PSOD) :
       (HasReturned(i) /\ Kind(log[i].at) = "kw_do") =>
          \A q \in ParenExprEnds(After(StmtEnds(log[i].at + 1), "kw_while")) :
             Kind(q) # "semi" =>
                /\ DiagSeqOf(i) =
                     <<Diagnostic("err_expected_semi_after", q, "do/while loop")>>
                /\ log[RetOf(i)].at = SkipUntil(q, "semi")

\* The keyword as the "expected '(' after" diagnostic spells it.
Spelling(kind) ==
    CASE kind = "kw_if" -> "if"
      [] kind = "kw_switch" -> "switch"
      [] kind = "kw_while" -> "while"
      [] kind = "kw_for" -> "for"

\* The history entries strictly between the call at entry i and its return.
Inside(i) == (i + 1)..(RetOf(i) - 1)

\* C5: for each of if, switch, while and for: when the token after the
\* keyword is not '(', parsing the statement emits exactly one diagnostic,
\* "expected '(' after <that keyword>", consumes up through the next
\* semicolon, and returns without calling the expression parser and without
\* parsing any body statement; the dispatcher adds no further diagnostic.
C5_MissingLParen ==
    \A i \in CallsOf(PSOD) :
       (/\ HasReturned(i)
        /\ Kind(log[i].at) \in ReturningCases
        /\ Kind(log[i].at + 1) # "l_paren")
       => /\ DiagSeqOf(i) =
               <<Diagnostic("err_expected_lparen_after", log[i].at + 1,
                            Spelling(Kind(log[i].at)))>>
          /\ log[RetOf(i)].at = SkipUntil(log[i].at + 1, "semi")
          /\ \A k \in Inside(i) :
                /\ log[k].ev # "ext"
                /\ ~(log[k].ev = "call" /\ log[k].fn = PSOD)

\* A nested statement with the '(' missing after its keyword has been
\* parsed, and a ';' was there to skip to.
C5_Witness ==
    \E i \in CallsOf(PSOD) :
       /\ HasReturned(i)
       /\ log[i].d > 1
       /\ Kind(log[i].at) \in ReturningCases
       /\ Kind(log[i].at + 1) \notin {"l_paren", "semi", "eof"}
       /\ Kind(log[RetOf(i)].at - 1) = "semi"

(***************************************************************************)
(* The if statement.                                                       *)
(***************************************************************************)
IfCalls == CallsOf("ParseIfStatement")

\* The history has an entry n, and it is the event ev of routine fn at
\* depth d with the cursor at p.
IsEvent(n, ev, fn, d, p) ==
    n \in DOMAIN log =>
       log[n].ev = ev /\ log[n].fn = fn /\ log[n].d = d /\ log[n].at = p

\* The call of the then statement by the if activation called at entry i:
\* the entry after the call of the condition's parser.
ThenCall(i) == i + 2

\* The if activation called at entry i went on to its then statement.
HasThen(i) ==
    /\ ThenCall(i) \in DOMAIN log
    /\ log[ThenCall(i)].ev = "call"
    /\ log[ThenCall(i)].d = log[i].d + 1

\* The else tokens the if activation called at entry i has consumed.
ElsesOf(i) ==
    {k \in DOMAIN log :
        /\ k > i /\ log[k].ev = "else" /\ log[k].d = log[i].d
        /\ \A j \in i..k : ~(log[j].ev = "ret" /\ log[j].d = log[i].d)}

\* C6: in nested if statements an 'else' is consumed by the innermost
\* ParseIfStatement activation whose then-branch has just been parsed: for
\* 'if (a) if (b) S1; else S2;' the else branch is parsed by the inner if
\* and the outer if returns having parsed no else branch; every if parses
\* exactly one statement per branch.  Stated of every if activation: once
\* its then statement has been parsed, it consumes the current token and
\* parses one else statement exactly when that token is 'else', and
\* returns right after the one statement of its last branch.
C6_ElseBindsToInnermostIf ==
    \A i \in IfCalls :
       (HasThen(i) /\ HasReturned(ThenCall(i))) =>
          LET d == log[i].d
              r == RetOf(ThenCall(i))
              a == log[r].at
          IN  IF Kind(a) = "kw_else"
              THEN /\ IsEvent(r + 1, "else", "ParseIfStatement", d, a)
                   /\ IsEvent(r + 2, "call", PSOD, d + 1, a + 1)
                   /\ (r + 2 \in DOMAIN log /\ HasReturned(r + 2)) =>
                         IsEvent(RetOf(r + 2) + 1, "ret", "ParseIfStatement", d,
                                 log[RetOf(r + 2)].at)
              ELSE IsEvent(r + 1, "ret", "ParseIfStatement", d, a)

\* 'if (a) if (b) S1 else S2' has been parsed without a diagnostic: the
\* inner if consumed the else, the outer if returned without one.
C6_Witness ==
    /\ Parsed
    /\ diags = <<>>
    /\ \E i \in IfCalls, j \in IfCalls :
          /\ HasThen(i) /\ log[ThenCall(i)].at = log[j].at
          /\ log[j].d = log[i].d + 2
          /\ ElsesOf(j) # {}
          /\ ElsesOf(i) = {}

(***************************************************************************)
(* The goto statement.                                                     *)
(***************************************************************************)
\* The dispatcher activations on a 'goto' followed by '*' that have
\* returned.
IndirectGotos ==
    {i \in CallsOf(PSOD) :
        /\ HasReturned(i)
        /\ Kind(log[i].at) = "kw_goto"
        /\ Kind(log[i].at + 1) = "star"}

\* The return of the goto routine the dispatcher activation at entry i
\* called: the last entry before the semicolon step.
GotoRet(i) ==
    CHOOSE k \in Inside(i) :
       /\ log[k].ev = "ret" /\ log[k].fn = "ParseGotoStatement"
       /\ log[k].d = log[i].d + 1

\* C7: after 'goto', when the next token is '*': with extensions enabled
\* the parser emits exactly one diagnostic (the GNU indirect-goto
\* extension), consumes the '*' and the whole expression after it, and
\* consumes the ';'; with NoExtensions set the '*' is not consumed and the
\* only diagnostic is 'expected ; after goto statement'.
C7_IndirectGoto ==
    \A i \in IndirectGotos :
       LET p == log[i].at
       IN  IF NoExtensions
           THEN /\ log[GotoRet(i)].at = p + 1
                /\ \A k \in Inside(i) : log[k].ev # "ext"
                /\ DiagSeqOf(i) =
                     <<Diagnostic("err_expected_semi_after", p + 1,
                                  "goto statement")>>
           ELSE /\ \E k \in Inside(i) :
                      /\ log[k].ev = "ext" /\ log[k].fn = "ParseExpression"
                      /\ log[k].at = p + 2
                      /\ log[k].d = log[i].d + 1
                /\ log[GotoRet(i)].at = ParseExpressionAt(p + 2).pos
                /\ \A q \in ExprEnds(p + 2) :
                      Kind(q) = "semi" =>
                         /\ DiagSeqOf(i) =
                              <<Diagnostic("ext_gnu_indirect_goto", p + 1, "")>>
                         /\ log[GotoRet(i)].at = q
                         /\ log[RetOf(i)].at = q + 1

\* With extensions enabled, a nested 'goto * expression ;' has been parsed.
C7_Witness ==
    /\ ~NoExtensions
    /\ \E i \in IndirectGotos :
          /\ log[i].d > 1
          /\ \E q \in ExprEnds(log[i].at + 2) :
                Kind(q) = "semi" /\ log[RetOf(i)].at = q + 1

(***************************************************************************)
(* The for statement.                                                      *)
(***************************************************************************)
ForCalls == CallsOf("ParseForStatement")

\* The for statement at p has the specifier '( ; ; )'.
EmptySpecifier(p) ==
    /\ Kind(p + 1) = "l_paren"
    /\ Kind(p + 2) = "semi"
    /\ Kind(p + 3) = "semi"
    /\ Kind(p + 4) = "r_paren"

\* C8: for the header 'for ( ; ; )' the parser calls the expression parser
\* zero times, emits no diagnostic for the header, and then parses exactly
\* one body statement.
C8_EmptyForSpecifier ==
    \A i \in ForCalls :
       (EmptySpecifier(log[i].at) /\ i + 1 \in DOMAIN log) =>
          /\ log[i + 1] = [ev |-> "call", fn |-> PSOD, at |-> log[i].at + 5,
                           nd |-> log[i].nd, d |-> log[i].d + 1]
          /\ HasReturned(i + 1) =>
                LET r == RetOf(i + 1)
                IN  r + 1 \in DOMAIN log =>
                       log[r + 1] = [ev |-> "ret", fn |-> "ParseForStatement",
                                     at |-> log[r].at, nd |-> log[r].nd,
                                     d |-> log[i].d]

\* 'for ( ; ; ) statement' has been parsed without a diagnostic.
C8_Witness ==
    /\ Parsed
    /\ diags = <<>>
    /\ \E i \in ForCalls :
          /\ EmptySpecifier(log[i].at)
          /\ HasReturned(i)
          /\ HasReturned(i + 1)

\* The for activations whose first clause begins with a declaration
\* specifier, once past that clause.
DeclarationFors ==
    {i \in ForCalls :
        /\ i + 2 \in DOMAIN log
        /\ Kind(log[i].at + 1) = "l_paren"
        /\ isDeclarationSpecifier(log[i].at + 2)}

\* The history entry n is the event of what follows the first clause of a
\* for specifier when that clause ended with the cursor at q, nd
\* diagnostics emitted so far, in a for activation of depth d: the second
\* clause's expression, or with that clause empty the third clause's
\* expression, or with both empty the body statement.
AfterFirstClause(n, q, nd, d) ==
    IF Kind(q) # "semi"
    THEN log[n] = [ev |-> "ext", fn |-> "ParseExpression", at |-> q,
                   nd |-> nd, d |-> d]
    ELSE IF Kind(q + 1) # "r_paren"
         THEN log[n] = [ev |-> "ext", fn |-> "ParseExpression", at |-> q + 1,
                        nd |-> nd, d |-> d]
         ELSE log[n] = [ev |-> "call", fn |-> PSOD, at |-> q + 2,
                        nd |-> nd, d |-> d + 1]

\* The diagnostics of kind kind that the for activation at entry i emitted
\* before its next call.
ForDiagsOfKind(i, kind) ==
    {n \in (log[i].nd + 1)..log[i + 2].nd : diags[n].kind = kind}

\* C9: when the first clause of a for header begins with a declaration
\* specifier, the parser calls the declaration parser (which consumes the
\* clause's ';'), requires no additional ';' for that clause, and emits
\* the 'variable declaration in for loop is a C99 feature' extension
\* diagnostic if and only if the C99 language option is off.
C9_DeclarationInFor ==
    \A i \in DeclarationFors :
       LET p == log[i].at
           r == ParseDeclarationAt(p + 2)
           ext == Diagnostic("ext_c99_variable_decl_in_for_loop", p + 2, "")
           before == IF C99 THEN <<>> ELSE <<ext>>
       IN  /\ log[i + 1] = [ev |-> "ext", fn |-> "ParseDeclaration",
                            at |-> p + 2, nd |-> log[i].nd + Len(before),
                            d |-> log[i].d]
           /\ SubSeq(diags, log[i].nd + 1, log[i + 1].nd) = before
           /\ AfterFirstClause(i + 2, r.pos, log[i + 1].nd + Len(r.errs),
                               log[i].d)
           /\ ForDiagsOfKind(i, "err_expected_semi_for") = {}
           /\ (ForDiagsOfKind(i, "ext_c99_variable_decl_in_for_loop") # {})
                 <=> ~C99

\* With C99 off, a for statement whose first clause is a declaration has
\* been parsed with the extension diagnostic as the only one.
C9_Witness ==
    /\ Parsed
    /\ ~C99
    /\ \E i \in DeclarationFors :
          /\ HasReturned(i)
          /\ diags = <<Diagnostic("ext_c99_variable_decl_in_for_loop",
                                  log[i].at + 2, "")>>

(***************************************************************************)
(* Parsing again, alone, the tokens that one call consumed.                *)
(***************************************************************************)
\* The diagnostic e of a parse of the tokens from a on, as a parse of those
\* tokens alone locates it.
Relocated(e, a) == [e EXCEPT !.loc = @ - (a - 1)]

\* What the call of ParseStatementOrDeclaration at history entry i did: the
\* number of tokens consumed and the diagnostics emitted.
Consumed(i) ==
    [len  |-> log[RetOf(i)].at - log[i].at,
     errs |-> {Relocated(diags[n], log[i].at) : n \in DiagsOf(i)}]

\* The top-level parser calls ParseStatementOrDeclaration on the tokens
\* that one of the calls consumed, followed by end-of-input.
Reparse ==
    /\ Parsed
    /\ \E i \in CallsOf(PSOD) :
          /\ first' = <<Consumed(i)>>
          /\ toks' = SubSeq(toks, log[i].at, log[RetOf(i)].at - 1) \o <<"eof">>
    /\ pos' = 1
    /\ diags' = <<>>
    /\ stack' = <<Frame(PSOD)>>
    /\ log' = <<[ev |-> "call", fn |-> PSOD, at |-> 1, nd |-> 0, d |-> 1]>>
    /\ UNCHANGED <<C99, NoExtensions>>

RoundTripNext == Next \/ Reparse

RoundTripSpec == Init /\ [][RoundTripNext]_vars

\* The second parse has returned.
Reparsed == Done /\ first # <<>>

\* C10: for every input, if one call of ParseStatementOrDeclaration
\* consumes the token range [i, j), then parsing that range alone (followed
\* by end-of-input) consumes exactly the whole range and emits no
\* diagnostic that the original parse did not emit.
C10_ConsumedRangeReparses ==
    Reparsed =>
       /\ pos = first[1].len + 1
       /\ Kind(pos) = "eof"
       /\ \A n \in DOMAIN diags : diags[n] \in first[1].errs

\* The tokens of a call that recovered from an error have been parsed
\* again.
C10_Witness ==
    /\ Reparsed
    /\ first[1].len > 1
    /\ first[1].errs # {}
    /\ diags # <<>>

(***************************************************************************)
(* End-of-input inside a compound statement.                               *)
(***************************************************************************)
\* The diagnostics of kind kind emitted so far.
DiagsOfKind(kind) == {n \in DOMAIN diags : diags[n].kind = kind}

\* The compound statement activations that found end-of-input where the
\* closing brace should be: those whose return is at "eof" with one more
\* diagnostic than at the loop test before it.
OpenAtEof ==
    {i \in CallsOf("ParseCompoundStatement") :
        /\ HasReturned(i)
        /\ Kind(log[RetOf(i)].at) = "eof"
        /\ log[RetOf(i)].nd > log[RetOf(i) - 1].nd}

\* C11: when end-of-input is reached inside a compound statement, the
\* "expected closing brace" diagnostic is reported once for the parse (also
\* when several nested blocks are still open), nothing further is consumed,
\* and the cursor is still at end-of-input when the entry point returns.
C11_MissingRBraceReportedOnce ==
    (Parsed /\ OpenAtEof # {}) =>
       /\ Cardinality(DiagsOfKind("err_expected_rbrace")) = 1
       /\ Kind(pos) = "eof"
       /\ \A i \in OpenAtEof : log[RetOf(i)].at = pos

(***************************************************************************)
(* Declarations.                                                           *)
(***************************************************************************)
\* C12: when ParseStatementOrDeclaration is positioned at a token that
\* starts a declaration (a declaration specifier), it routes to the
\* declaration parser, which consumes the declaration including its
\* terminator, and no "expected statement or declaration" diagnostic is
\* emitted.
C12_DeclarationRouted ==
    \A i \in CallsOf(PSOD) :
       (HasReturned(i) /\ isDeclarationSpecifier(log[i].at)) =>
          /\ log[i + 1] = [ev |-> "ext", fn |-> "ParseDeclaration",
                           at |-> log[i].at, nd |-> log[i].nd, d |-> log[i].d]
          /\ log[RetOf(i)].at = ParseDeclarationAt(log[i].at).pos
          /\ \A n \in DiagsOf(i) :
                diags[n].kind # "err_expected_statement_declaration"

(***************************************************************************)
(* The shared semicolon step.                                              *)
(***************************************************************************)
\* The semicolon steps taken so far.
SemiSteps == {k \in DOMAIN log : log[k].ev = "semi"}

\* The call of ParseStatementOrDeclaration that took the semicolon step k.
CallOfStep(k) ==
    CHOOSE i \in CallsOf(PSOD) :
       /\ i < k /\ log[i].d = log[k].d
       /\ \A j \in i..k : ~(log[j].ev = "ret" /\ log[j].d = log[i].d)

\* The skips to a ';' that the routine called by the dispatcher activation
\* of the semicolon step k made itself, and that found a ';' to consume.
SemisSkippedBefore(k) ==
    {j \in CallOfStep(k)..k :
        /\ log[j].ev = "skip" /\ log[j].fn = "semi"
        /\ log[j].d = log[k].d + 1
        /\ SkipUntil(log[j].at, "semi") > log[j].at
        /\ Kind(SkipUntil(log[j].at, "semi") - 1) = "semi"}

\* C13: on every path, the routines for do, goto, continue, break and
\* return hand control back to the dispatcher without having consumed the
\* ';' that terminates their statement; that ';' is consumed only by the
\* dispatcher's shared semicolon step.  This includes the error paths of
\* ParseDoStatement (missing 'while', missing '(' after 'while').
C13_SemiLeftToDispatcher ==
    \A k \in SemiSteps :
       /\ SemisSkippedBefore(k) = {}
       /\ (Kind(log[k].at) = "semi" /\ HasReturned(CallOfStep(k))) =>
             log[RetOf(CallOfStep(k))].at = log[k].at + 1

\* The statements that end in a ';' of their own, with the label of each
\* in the missing-semicolon diagnostic.
SemiLabels ==
    [kw_do |-> "do/while loop", kw_goto |-> "goto statement",
     kw_continue |-> "continue statement", kw_break |-> "break statement",
     kw_return |-> "return statement"]

\* The semicolon steps that the dispatcher activation called at entry i
\* took.
StepsOf(i) == {k \in Inside(i) : log[k].ev = "semi" /\ log[k].d = log[i].d}

\* C14: the dispatcher's shared semicolon step runs exactly when the
\* statement dispatched on is do, goto, continue, break or return, and
\* never for a block, an empty statement, if, switch, while, for or the
\* default case; when it runs and the current token is ';' it consumes
\* exactly that token with no diagnostic, otherwise it emits exactly one
\* missing-semicolon diagnostic whose label is non-null and is the label of
\* the keyword dispatched on.
C14_SemicolonStep ==
    \A i \in CallsOf(PSOD) :
       HasReturned(i) =>
          LET K == Kind(log[i].at)
              r == log[RetOf(i)]
          IN  IF K \in DOMAIN SemiLabels
              THEN \E k \in StepsOf(i) :
                      /\ StepsOf(i) = {k}
                      /\ RetOf(i) > k
                      /\ \A j \in (k + 1)..(RetOf(i) - 1) : log[j].ev = "skip"
                      /\ IF Kind(log[k].at) = "semi"
                         THEN /\ r.at = log[k].at + 1
                              /\ r.nd = log[k].nd
                         ELSE /\ SubSeq(diags, log[k].nd + 1, r.nd) =
                                   <<Diagnostic("err_expected_semi_after",
                                                log[k].at, SemiLabels[K])>>
                              /\ r.at = SkipUntil(log[k].at, "semi")
              ELSE StepsOf(i) = {}

\* A nested 'break' without its ';' and a statement ending in its ';' have
\* both been through the semicolon step.
C14_Witness ==
    /\ Parsed
    /\ \E i \in CallsOf(PSOD), j \in CallsOf(PSOD) :
          /\ log[i].d > 1
          /\ Kind(log[i].at) = "kw_break"
          /\ Kind(log[i].at + 1) # "semi"
          /\ Kind(log[j].at) \in DOMAIN SemiLabels
          /\ log[RetOf(j)].nd = log[j].nd
          /\ Kind(log[RetOf(j)].at - 1) = "semi"

(***************************************************************************)
(* The ')' of the for specifier.                                           *)
(***************************************************************************)
\* The cursors after the three clauses of the for specifier of the 'for' at
\* p, the clauses being well-formed: where the ')' is expected.
ForClausesEnd(p) ==
    LET part1 == After(OptExprEnds(p + 2), "semi")
        part2 == After(UNION {OptExprEnds(q) : q \in part1}, "semi")
    IN  IF Kind(p + 1) # "l_paren" THEN {}
        ELSE UNION {IF Kind(q) = "r_paren" THEN {q} ELSE ExprEnds(q) :
                       q \in part2}

\* The body statements that the for activation called at entry i parsed.
BodiesOf(i) ==
    {k \in Inside(i) :
        log[k].ev = "call" /\ log[k].fn = PSOD /\ log[k].d = log[i].d + 1}

\* The skips to a ')' that the for activation called at entry i made.
RParenSkipsOf(i) ==
    {k \in Inside(i) :
        log[k].ev = "skip" /\ log[k].fn = "r_paren" /\ log[k].d = log[i].d}

\* C15: in a for header whose third clause is not followed by ')',
\* ParseForStatement emits "expected ')'" at the current token plus a
\* matching back-reference at the remembered '(' location, skips to the
\* closing parenthesis (not to a semicolon), and returns without parsing a
\* body statement.
C15_MissingRParenInFor ==
    \A i \in ForCalls :
       (HasReturned(i) /\ Kind(log[i].at + 1) = "l_paren") =>
          LET p == log[i].at
          IN  /\ \A k \in BodiesOf(i) :
                    Kind(log[k].at - 1) = "r_paren" /\ RParenSkipsOf(i) = {}
              /\ \A k \in RParenSkipsOf(i) :
                    /\ Kind(log[k].at) # "r_paren"
                    /\ SubSeq(diags, log[k].nd - 1, log[k].nd) =
                         <<Diagnostic("err_expected_rparen", log[k].at, ""),
                           Diagnostic("err_matching", p + 1, "")>>
                    /\ RetOf(i) = k + 1
                    /\ log[k + 1].at = SkipUntil(log[k].at, "r_paren")
                    /\ log[k + 1].nd = log[k].nd
                    /\ BodiesOf(i) = {}
              /\ \A q \in ForClausesEnd(p) :
                    Kind(q) # "r_paren" =>
                       /\ \E k \in RParenSkipsOf(i) : log[k].at = q
                       /\ DiagSeqOf(i) =
                            <<Diagnostic("err_expected_rparen", q, ""),
                              Diagnostic("err_matching", p + 1, "")>>

\* A for statement with well-formed clauses and no ')' has been parsed: the
\* skip went past a ';' to a ')'.
C15_Witness ==
    \E i \in ForCalls :
       /\ HasReturned(i)
       /\ \E q \in ForClausesEnd(log[i].at) :
             /\ Kind(q) # "r_paren"
             /\ \E x \in q..(log[RetOf(i)].at - 1) : Kind(x) = "semi"
             /\ Kind(log[RetOf(i)].at - 1) = "r_paren"

(***************************************************************************)
(* The default case.                                                       *)
(***************************************************************************)
\* The token kinds that start a statement the dispatcher handles.
Handled == {"l_brace", "semi"} \cup StmtKeywords

\* C16: when the current token starts none of the statement kinds the
\* dispatcher handles, ParseStatementOrDeclaration emits exactly one
\* "expected statement or declaration" diagnostic, runs skip-to-semicolon
\* recovery once, and returns without calling any statement routine and
\* without running the shared semicolon step.
C16_DefaultCase ==
    \A i \in CallsOf(PSOD) :
       (HasReturned(i) /\ Kind(log[i].at) \notin Handled) =>
          LET p == log[i].at
          IN  /\ DiagSeqOf(i) =
                   <<Diagnostic("err_expected_statement_declaration", p, "")>>
              /\ RetOf(i) = i + 2
              /\ log[i + 1] = [ev |-> "skip", fn |-> "semi", at |-> p,
                               nd |-> log[i].nd + 1, d |-> log[i].d]
              /\ log[i + 2].at = SkipUntil(p, "semi")

\* A nested statement starting with a token the dispatcher does not handle
\* has been skipped up to its ';', with tokens left after it.
C16_Witness ==
    \E i \in CallsOf(PSOD) :
       /\ HasReturned(i)
       /\ log[i].d > 1
       /\ Kind(log[i].at) \notin Handled
       /\ log[RetOf(i)].at > log[i].at + 1
       /\ Kind(log[RetOf(i)].at) # "eof"

(***************************************************************************)
(* The depth of the recursion.                                             *)
(***************************************************************************)
\* The activations on the stack that satisfy Is.
Active(Is(_)) == Cardinality({n \in DOMAIN stack : Is(stack[n])})

\* The nested active ParseStatementOrDeclaration activations.
Nesting == Active(LAMBDA f : f.fn = PSOD)

\* The brace-nesting depth: the compound statements that have eaten their
\* '{' and not yet their '}'.
BraceDepth ==
    Active(LAMBDA f : f.fn = "ParseCompoundStatement" /\ f.pc # "entry")

\* The routines for if, switch, while, do and for that are reading a body
\* statement.
BodyRoutines ==
    {"ParseIfStatement", "ParseSwitchStatement", "ParseWhileStatement",
     "ParseDoStatement", "ParseForStatement"}

BodyDepth == Active(LAMBDA f : f.fn \in BodyRoutines /\ f.pc # "entry")

\* C17 as claimed: at every point of a parse, the number of nested active
\* ParseStatementOrDeclaration activations never exceeds the current
\* brace-nesting depth plus one.
C17_NestingWithinBraceDepth == Nesting <= BraceDepth + 1

\* C17 as amended: at every point of a parse, the number of nested active
\* ParseStatementOrDeclaration activations never exceeds the current
\* brace-nesting depth, plus the number of if, switch, while, do and for
\* routines reading a body statement, plus one: recursion deepens only
\* through compound statements and the body statements of these routines.
C17_NestingWithinBlockAndBodyDepth ==
    /\ Nesting <= BraceDepth + BodyDepth + 1
    /\ \A n \in DOMAIN stack :
          (n > 1 /\ stack[n].fn = PSOD) =>
             /\ stack[n - 1].fn \in BodyRoutines \cup {"ParseCompoundStatement"}
             /\ stack[n - 1].pc # "entry"

\* Inside a block inside an if statement, a statement is being parsed: three
\* activations deep, one brace deep.
C17_Witness ==
    /\ Nesting = 3
    /\ BraceDepth = 1
    /\ BodyDepth = 1
    /\ Top.fn = PSOD

(***************************************************************************)
(* Progress of the cursor.                                                 *)
(***************************************************************************)
\* Every call of ParseStatementOrDeclaration that started at a token other
\* than end-of-input and has returned, returned with the cursor further on.
EveryCallAdvances ==
    \A i \in CallsOf(PSOD) :
       (HasReturned(i) /\ Kind(log[i].at) # "eof") =>
          log[RetOf(i)].at > log[i].at

\* C18: the cursor never moves backwards, and every call of
\* ParseStatementOrDeclaration that starts at a token other than
\* end-of-input returns with the cursor strictly advanced, so each
\* iteration of the compound-statement loop consumes at least one token.
C18_CursorAdvances == [][pos' >= pos /\ EveryCallAdvances']_vars

\* Two iterations of a compound-statement loop, one after the other, the
\* first one of a malformed statement, have each consumed tokens.
C18_Witness ==
    \E i \in CallsOf(PSOD), j \in CallsOf(PSOD) :
       /\ i < j /\ log[i].d = log[j].d /\ log[i].d > 1
       /\ log[i - 1].fn = "ParseCompoundStatement"
       /\ HasReturned(i) /\ HasReturned(j)
       /\ log[j].at = log[RetOf(i)].at
       /\ DiagsOf(i) # {}
       /\ log[RetOf(j)].at > log[j].at

(***************************************************************************)
(* Braces and recovery.                                                    *)
(***************************************************************************)
RECURSIVE BraceLevel(_)
\* The number of '{' less the number of '}' among the first n tokens.
BraceLevel(n) ==
    IF n = 0 THEN 0
    ELSE BraceLevel(n - 1)
         + (IF Kind(n) = "l_brace" THEN 1 ELSE IF Kind(n) = "r_brace" THEN -1 ELSE 0)

\* The braces of the stream are balanced.
Balanced ==
    /\ \A n \in DOMAIN toks : BraceLevel(n) >= 0
    /\ BraceLevel(Len(toks)) = 0

\* The '}' that closes the '{' at p, in a balanced stream.
Closing(p) ==
    CHOOSE q \in DOMAIN toks :
       /\ q > p /\ BraceLevel(q) = BraceLevel(p - 1)
       /\ \A x \in p..(q - 1) : BraceLevel(x) > BraceLevel(p - 1)

\* C19: error recovery started while parsing a statement inside a compound
\* statement never consumes the '}' that closes the enclosing block: for
\* every input whose braces are balanced, each block's closing brace is
\* consumed by the ParseCompoundStatement activation that consumed its '{',
\* and no "expected closing brace" diagnostic is emitted, even when
\* statements inside the block are malformed.
C19_RecoveryKeepsClosingBrace ==
    Balanced =>
       /\ DiagsOfKind("err_expected_rbrace") = {}
       /\ \A i \in CallsOf("ParseCompoundStatement") :
             HasReturned(i) => log[RetOf(i)].at = Closing(log[i].at) + 1

====
